---- MODULE Spec2Model ----
(***************************************************************************)
(* Model of amazon-price-per-kg-scraper.py: the price parsers, the two     *)
(* price-per-kg normalisers, the per-listing resolution, the page          *)
(* extraction loop, the ranking filter and the page loop of main.          *)
(*                                                                         *)
(* Text is a sequence of one-character strings.  "nbsp" stands for the     *)
(* non-breaking space U+00A0, "eur" for the euro sign and "D309" for a    *)
(* run of 309 digits '9' (an integer above the largest double).  Numbers  *)
(* are exact rationals [n, d] in lowest terms: float rounding is not      *)
(* modelled.  A Python call yields [exc, val]: exc = "none" on a normal   *)
(* return, else the name of the exception that leaves the call.           *)
(***************************************************************************)
EXTENDS Integers, Sequences, FiniteSets, TLC

\* ------------------------------------------------------------ bounds ----
MaxLen == 4        \* longest price text enumerated for _nettoyer_prix_total

\* ------------------------------------------------------- Python values --
RECURSIVE Gcd(_, _)
Gcd(a, b) == IF b = 0 THEN a ELSE Gcd(b, a % b)

Abs(x) == IF x < 0 THEN -x ELSE x

\* the rational n/d (d > 0) in lowest terms
Rat(n, d) == LET g == Gcd(Abs(n), d) IN [n |-> n \div g, d |-> d \div g]

Zero == Rat(0, 1)

RatMul(a, b) == Rat(a.n * b.n, a.d * b.d)
\* a / b for b # 0
RatDiv(a, b) == IF b.n > 0 THEN Rat(a.n * b.d, a.d * b.n)
                           ELSE Rat(-(a.n * b.d), a.d * (-b.n))
RatLt(a, b) == a.n * b.d < b.n * a.d
RatPos(a) == a.n > 0

\* the element of a one-element set; Only({F(x) : x \in {e}}) is F(e) with e
\* evaluated once
Only(S) == CHOOSE x \in S : TRUE

Ret(v) == [exc |-> "none", val |-> v]
Raise(e) == [exc |-> e, val |-> Zero]

RECURSIVE Pow10(_)
Pow10(k) == IF k = 0 THEN 1 ELSE 10 * Pow10(k - 1)

\* ---------------------------------------------------------- Python str --
Digits == {"0", "1", "2", "3", "4", "5", "6", "7", "8", "9"}
DigitVal == [c \in Digits |->
               CASE c = "0" -> 0 [] c = "1" -> 1 [] c = "2" -> 2 [] c = "3" -> 3
                 [] c = "4" -> 4 [] c = "5" -> 5 [] c = "6" -> 6 [] c = "7" -> 7
                 [] c = "8" -> 8 [] c = "9" -> 9]
\* characters str.strip(), float() and the regex class \s treat as blank
Whitespace == {" ", "nbsp"}

NA == <<"N", "/", "A">>

\* str.replace(c, r) for a one-character c; r is a one-character text or ''
Replace(s, c, r) ==
  LET RECURSIVE go(_)
      go(t) == IF t = <<>> THEN <<>>
               ELSE (IF Head(t) = c THEN r ELSE <<Head(t)>>) \o go(Tail(t))
  IN go(s)

RECURSIVE LStrip(_)
LStrip(s) == IF s # <<>> /\ Head(s) \in Whitespace THEN LStrip(Tail(s)) ELSE s
RECURSIVE RStrip(_)
RStrip(s) == IF s # <<>> /\ s[Len(s)] \in Whitespace
             THEN RStrip(SubSeq(s, 1, Len(s) - 1)) ELSE s
\* str.strip()
Strip(s) == LStrip(RStrip(s))

\* str.lower() on the letters the model uses
Lower(s) == [k \in 1..Len(s) |->
               CASE s[k] = "K" -> "k" [] s[k] = "G" -> "g" [] s[k] = "L" -> "l"
                 [] s[k] = "N" -> "n" [] s[k] = "A" -> "a" [] s[k] = "X" -> "x"
                 [] OTHER -> s[k]]

RECURSIVE SeqToNat(_)
SeqToNat(ds) == IF ds = <<>> THEN 0
                ELSE 10 * SeqToNat(SubSeq(ds, 1, Len(ds) - 1)) + DigitVal[ds[Len(ds)]]

\* float(s): blanks around the number are ignored, then an optional sign and
\* digits with at most one '.', at least one digit; anything else is a
\* ValueError.  (Exponents, '_', inf and nan need letters outside the
\* enumerated alphabets.)
pyfloat(s) ==
  LET Parse(t) ==
        LET signed == t # <<>> /\ t[1] \in {"+", "-"}
            Number(body) ==
              LET dots == {k \in 1..Len(body) : body[k] = "."}
                  ds == SelectSeq(body, LAMBDA c : c \in Digits)
                  ok == /\ \A k \in 1..Len(body) : body[k] \in Digits \cup {"."}
                        /\ Cardinality(dots) <= 1
                        /\ ds # <<>>
                  frac == IF dots = {} THEN 0
                          ELSE Len(body) - (CHOOSE k \in dots : TRUE)
                  mag == SeqToNat(ds)
              IN IF ~ok THEN Raise("ValueError")
                 ELSE Ret(Rat(IF signed /\ t[1] = "-" THEN -mag ELSE mag, Pow10(frac)))
        IN Only({Number(body) : body \in {IF signed THEN Tail(t) ELSE t}})
  IN Only({Parse(t) : t \in {Strip(s)}})

\* ------------------------------------------------ _nettoyer_prix_total --
\* the replace chain of line 58 without its '\xa0' link
prix_net_sans_nbsp(prix_str) ==
  Strip(Replace(Replace(Replace(prix_str, "eur", <<>>), " ", <<>>), ",", <<".">>))

\* the replace chain of line 58
prix_net(prix_str) ==
  Strip(Replace(Replace(Replace(Replace(prix_str, "eur", <<>>), "nbsp", <<>>),
                        " ", <<>>), ",", <<".">>))

_nettoyer_prix_total(prix_str) ==
  IF prix_str = <<>> \/ prix_str = NA THEN Ret(Zero)
  ELSE LET Try(r) == IF r.exc = "ValueError" THEN Ret(Zero) ELSE r
       IN Only({Try(r) : r \in {pyfloat(prix_net(prix_str))}})

\* -------------------------------------------- calculer_prix_au_kg_direct --
\* the normaliser comparing the unit as given, without lower() and strip()
calculer_prix_au_kg_direct_brut(valeur, unite) ==
  IF valeur.n <= 0 THEN Zero
  ELSE IF unite = <<"k", "g">> THEN valeur
  ELSE IF unite = <<"1", "0", "0", "g">> THEN RatMul(valeur, Rat(10, 1))
  ELSE Zero

calculer_prix_au_kg_direct(valeur, unite) ==
  IF valeur.n <= 0 THEN Zero
  ELSE LET Par(u) == IF u = <<"k", "g">> THEN valeur
                       ELSE IF u = <<"1", "0", "0", "g">> THEN RatMul(valeur, Rat(10, 1))
                       ELSE Zero
       IN Only({Par(u) : u \in {Strip(Lower(unite))}})

\* ------------------------------------------------------------ regexes ----
\* the first index >= i of t whose character is outside S (Len(t) + 1 if none)
RECURSIVE SkipWhile(_, _, _)
SkipWhile(t, i, S) ==
  IF i <= Len(t) /\ t[i] \in S THEN SkipWhile(t, i + 1, S) ELSE i

At(t, i) == IF i >= 1 /\ i <= Len(t) THEN t[i] ELSE "eof"

NoMatch == [found |-> FALSE, g1 |-> <<>>, g2 |-> <<>>]

\* \d: a decimal digit ("D309" is a run of digits)
ReDigit == Digits \cup {"D309"}

\* (\d+)\s*x\s*(\d+)\s*g with re.IGNORECASE, anchored at index i
MatchFormatAt(t, i) ==
  LET j == SkipWhile(t, i, ReDigit)
      k == SkipWhile(t, j, Whitespace)
      l == SkipWhile(t, k + 1, Whitespace)
      m == SkipWhile(t, l, ReDigit)
      n == SkipWhile(t, m, Whitespace)
  IN IF j > i /\ At(t, k) \in {"x", "X"} /\ m > l /\ At(t, n) \in {"g", "G"}
     THEN [found |-> TRUE, g1 |-> SubSeq(t, i, j - 1), g2 |-> SubSeq(t, l, m - 1)]
     ELSE NoMatch

\* ([\d.,\s]+)€\s*(?:/|/\s*|/)?\s*(kg|100\s*g), anchored at index i
MatchUnitaireAt(t, i) ==
  LET j == SkipWhile(t, i, Digits \cup {".", ","} \cup Whitespace)
      k == SkipWhile(t, j + 1, Whitespace)
      k2 == IF At(t, k) = "/" THEN k + 1 ELSE k
      l == SkipWhile(t, k2, Whitespace)
      m == SkipWhile(t, l + 3, Whitespace)
  IN IF j > i /\ At(t, j) = "eur"
     THEN IF At(t, l) = "k" /\ At(t, l + 1) = "g"
          THEN [found |-> TRUE, g1 |-> SubSeq(t, i, j - 1), g2 |-> SubSeq(t, l, l + 1)]
          ELSE IF At(t, l) = "1" /\ At(t, l + 1) = "0" /\ At(t, l + 2) = "0"
                  /\ At(t, m) = "g"
          THEN [found |-> TRUE, g1 |-> SubSeq(t, i, j - 1), g2 |-> SubSeq(t, l, m)]
          ELSE NoMatch
     ELSE NoMatch

\* re.search (line 93): the match at the leftmost index where the pattern matches
re_search_format(t) ==
  LET starts == {a \in 1..Len(t) : MatchFormatAt(t, a).found}
  IN IF starts = {} THEN NoMatch
     ELSE MatchFormatAt(t, CHOOSE a \in starts : \A b \in starts : a <= b)

\* re.search (line 130)
re_search_unitaire(t) ==
  LET starts == {a \in 1..Len(t) : MatchUnitaireAt(t, a).found}
  IN IF starts = {} THEN NoMatch
     ELSE MatchUnitaireAt(t, CHOOSE a \in starts : \A b \in starts : a <= b)

\* ---------------------------------------------- calculer_prix_par_format --
\* int(s) of a run of digits: [big, v], big when the run holds "D309"
pyint(ds) ==
  IF \E k \in 1..Len(ds) : ds[k] = "D309" THEN [big |-> TRUE, v |-> 1]
  ELSE [big |-> FALSE, v |-> SeqToNat(ds)]

\* a * b on Python ints
IntMul(a, b) ==
  IF (~a.big /\ a.v = 0) \/ (~b.big /\ b.v = 0) THEN [big |-> FALSE, v |-> 0]
  ELSE IF a.big \/ b.big THEN [big |-> TRUE, v |-> 1]
  ELSE [big |-> FALSE, v |-> a.v * b.v]

\* a / 1000.0: the int is converted to a double first
IntDivFloat1000(a) ==
  IF a.big THEN Raise("OverflowError") ELSE Ret(Rat(a.v, 1000))

calculer_prix_par_format(prix_total_str, titre) ==
  LET Poids(prix_total, poids_total_kg) ==
        IF poids_total_kg.exc \in {"ValueError", "TypeError", "ZeroDivisionError"}
        THEN Ret(Zero)
        ELSE IF poids_total_kg.exc # "none" THEN poids_total_kg
        ELSE IF poids_total_kg.val.n > 0
             THEN Ret(RatDiv(prix_total, poids_total_kg.val))
        ELSE Ret(Zero)
      Format(prix_total, match_format) ==
        IF ~match_format.found THEN Ret(Zero)
        ELSE Only({Poids(prix_total, p) :
                     p \in {IntDivFloat1000(IntMul(pyint(match_format.g1),
                                                   pyint(match_format.g2)))}})
      Prix(prix_total) ==
        IF prix_total.n <= 0 THEN Ret(Zero)
        ELSE Only({Format(prix_total, m) : m \in {re_search_format(titre)}})
  IN Only({Prix(p) : p \in {_nettoyer_prix_total(prix_total_str).val}})

\* --------------------------------------- _extraire_prix_unitaire_amazon --
\* The loop of lines 127-141 from span i on; st holds the three locals and
\* vus, the indices of the spans the loop has read.
RECURSIVE BoucleSpans(_, _, _)
BoucleSpans(prix_blocs, k, st) ==
  IF k > Len(prix_blocs) THEN st
  ELSE LET vu == [st EXCEPT !.vus = @ \cup {k}]
           Conversion(texte, match, f) ==
             LET unite_str == Strip(Replace(match.g2, " ", <<>>))
             IN IF f.exc = "ValueError"
                THEN BoucleSpans(prix_blocs, k + 1, [vu EXCEPT !.texte = texte])
                ELSE [vu EXCEPT !.texte = texte, !.valeur = f.val, !.unite = unite_str]
           Recherche(texte, match) ==
             LET valeur_str ==
                   Strip(Replace(Replace(match.g1, ",", <<".">>), " ", <<>>))
             IN IF ~match.found THEN BoucleSpans(prix_blocs, k + 1, vu)
                ELSE Only({Conversion(texte, match, f) : f \in {pyfloat(valeur_str)}})
           Span(texte) ==
             Only({Recherche(texte, m) : m \in {re_search_unitaire(texte)}})
       IN Only({Span(texte) : texte \in {Strip(prix_blocs[k])}})

_extraire_prix_unitaire_amazon(prix_blocs) ==
  BoucleSpans(prix_blocs, 1,
              [valeur |-> Zero, unite |-> NA, texte |-> NA, vus |-> {}])

\* ------------------------------------------------------- ProduitAmazon ---
TagNA == "N/A"
TagDirect == "Amazon (Direct)"
TagFormat == "Calcule (NxG)"

\* the dataclass constructor: the four given fields and the five defaults
ProduitAmazon(id_produit, titre, prix_total_str, lien) ==
  [id_produit |-> id_produit, titre |-> titre, prix_total_str |-> prix_total_str,
   lien |-> lien,
   prix_unitaire_kg |-> Zero, source_prix_kg |-> TagNA,
   prix_unitaire_texte_amazon |-> NA, prix_unitaire_valeur_amazon |-> Zero,
   prix_unitaire_unite_amazon |-> NA]

\* --------------------------------------------- nettoyer_et_trier_resultats
\* a sort step that is not stable: x goes before the elements of equal key
SortedInsertAvant(t, x) ==
  LET p == Cardinality({k \in 1..Len(t) :
                          RatLt(t[k].prix_unitaire_kg, x.prix_unitaire_kg)})
  IN SubSeq(t, 1, p) \o <<x>> \o SubSeq(t, p + 1, Len(t))

\* one step of sorted(): x goes after every element whose key is not above
\* its own (t is sorted, so these are a prefix of t)
SortedInsert(t, x) ==
  LET p == Cardinality({k \in 1..Len(t) :
                          ~RatLt(x.prix_unitaire_kg, t[k].prix_unitaire_kg)})
  IN SubSeq(t, 1, p) \o <<x>> \o SubSeq(t, p + 1, Len(t))

\* sorted(s, key=lambda x: x.prix_unitaire_kg)
RECURSIVE sorted(_)
sorted(s) == IF s = <<>> THEN <<>>
             ELSE SortedInsert(sorted(SubSeq(s, 1, Len(s) - 1)), s[Len(s)])

resultats_filtres(res) == SelectSeq(res, LAMBDA r : RatPos(r.prix_unitaire_kg))

nettoyer_et_trier_resultats(res) == sorted(resultats_filtres(res))

\* ------------------------------------------------------ _traiter_produit --
\* A listing block (produit) is [titre, prix_total, href, spans]: the text of
\* its title, price and link elements (NoElement when select_one finds
\* none) and the texts of its secondary-text spans.
NoElement == <<"None">>
TitreNonTrouve == <<"Titre non trouve">>
LienNonTrouve == <<"Lien non trouve">>

\* lines 149-173: the listing as created, the site's unit price stored in
\* it, and the direct price per kg
TraiterExtraction(produit, id_prefix) ==
  LET titre_p == IF produit.titre = NoElement THEN TitreNonTrouve
                 ELSE Strip(produit.titre)
      lien == IF produit.href = NoElement THEN LienNonTrouve
              ELSE <<"URL_BASE_AMAZON">> \o produit.href
      prix_p == IF produit.prix_total = NoElement THEN NA ELSE produit.prix_total
      Avec(amz) ==
        [data |-> [ProduitAmazon(id_prefix, titre_p, prix_p, lien) EXCEPT
                     !.prix_unitaire_valeur_amazon = amz.valeur,
                     !.prix_unitaire_unite_amazon = amz.unite,
                     !.prix_unitaire_texte_amazon = amz.texte],
         direct |-> calculer_prix_au_kg_direct(amz.valeur, amz.unite)]
  IN Only({Avec(amz) : amz \in {_extraire_prix_unitaire_amazon(produit.spans)}})

\* the test of line 176 inverted
GardeDirectInverse(direct) == ~RatPos(direct)

\* line 176: the direct price is kept when it is > 0.0, else the pack-size
\* normaliser is tried
GardeDirect(direct) == RatPos(direct)

\* the source tag left unset in the pack-size branch
TagDeBrancheOublie(branche) == IF branche = "source_direct" THEN TagDirect ELSE TagNA

\* lines 178 and 185: the source tag of each branch
TagDeBranche(branche) == IF branche = "source_direct" THEN TagDirect ELSE TagFormat

\* lines 145-192 as one call
_traiter_produit(produit, id_prefix) ==
  LET Tentative2(e, f) ==
        IF f.exc # "none" THEN [exc |-> f.exc, val |-> e.data]
        ELSE IF RatPos(f.val)
             THEN Ret([e.data EXCEPT !.prix_unitaire_kg = f.val,
                                      !.source_prix_kg = TagDeBranche("source_format")])
        ELSE Ret(e.data)
      Decision(e) ==
        IF GardeDirect(e.direct)
        THEN Ret([e.data EXCEPT !.prix_unitaire_kg = e.direct,
                                 !.source_prix_kg = TagDeBranche("source_direct")])
        ELSE Only({Tentative2(e, f) :
                     f \in {calculer_prix_par_format(e.data.prix_total_str,
                                                     e.data.titre)}})
  IN Only({Decision(e) : e \in {TraiterExtraction(produit, id_prefix)}})

\* ------------------------------------------------- extraire_donnees_page --
\* line 205
produit_id(base, idx) == <<"R", base + idx + 1>>

\* the exceptions an `except Exception` clause catches (lines 210, 313)
EstException(e) ==
  e \in {"OverflowError", "ValueError", "TypeError", "ZeroDivisionError",
         "TimeoutError", "Error"}

\* a `break` in place of the `continue` of line 212
ApresExceptionBreak(idx, n) == n

\* lines 210-212: the index the loop of n blocks goes on with after the
\* listing at index idx raised
ApresException(idx, n) == idx + 1

\* lines 204-214 from index idx (0-based) on
RECURSIVE BouclePage(_, _, _, _)
BouclePage(blocs, base, idx, res) ==
  IF idx >= Len(blocs) THEN Ret(res)
  ELSE LET Suite(r) ==
             IF r.exc = "none" THEN BouclePage(blocs, base, idx + 1, Append(res, r.val))
             ELSE IF EstException(r.exc)
                  THEN BouclePage(blocs, base, ApresException(idx, Len(blocs)), res)
             ELSE [exc |-> r.exc, val |-> res]
       IN Only({Suite(r) : r \in {_traiter_produit(blocs[idx + 1],
                                                   produit_id(base, idx))}})

\* lines 201-214 (page.content() of line 198 is a step of main)
extraire_donnees_page(blocs, base) == BouclePage(blocs, base, 0, <<>>)

\* ---------------------------------------------------------------- state --
VARIABLES
  prix_str, prix_ret,                      \* a call of _nettoyer_prix_total
  valeur, unite, direct_ret,               \* a call of calculer_prix_au_kg_direct
  prix_total_str, titre, format_ret,       \* a call of calculer_prix_par_format
  prix_blocs, unitaire_ret,                \* a call of _extraire_prix_unitaire_amazon
  resultats_in, resultats_tries,           \* a call of nettoyer_et_trier_resultats
  produits, row_num_base, i, resultats,    \* a call of extraire_donnees_page ...
  produit_data, prix_kg_direct, appels, etape,   \* ... and its _traiter_produit
  pc, page_num, total_resultats, current_row,    \* main
  pages_visitees, page_echec, collecte, arg_tri, produits_tries, arg_csv

varsPrix == <<prix_str, prix_ret>>
varsDirect == <<valeur, unite, direct_ret>>
varsFormat == <<prix_total_str, titre, format_ret>>
varsExtraire == <<prix_blocs, unitaire_ret>>
varsTri == <<resultats_in, resultats_tries>>
varsPage == <<produits, row_num_base, i, resultats, produit_data, prix_kg_direct,
              appels, etape>>
varsMain == <<pc, page_num, total_resultats, current_row, pages_visitees,
              page_echec, collecte, arg_tri, produits_tries, arg_csv>>
vars == <<varsPrix, varsDirect, varsFormat, varsExtraire, varsTri, varsPage, varsMain>>

Pending == [exc |-> "pending", val |-> Zero]
NoProduit == ProduitAmazon(<<"R", 0>>, <<>>, <<>>, <<>>)

\* the parts of the state a specification does not use stay at these values
OffPrix == prix_str = <<>> /\ prix_ret = Pending
OffDirect == valeur = Zero /\ unite = <<>> /\ direct_ret = Pending
OffFormat == prix_total_str = <<>> /\ titre = <<>> /\ format_ret = Pending
OffExtraire == prix_blocs = <<>> /\ unitaire_ret = Pending
OffTri == resultats_in = <<>> /\ resultats_tries = Pending
OffPage == /\ produits = <<>> /\ row_num_base = 0 /\ i = 0 /\ resultats = <<>>
           /\ produit_data = NoProduit /\ prix_kg_direct = Zero /\ appels = <<>>
           /\ etape = "off"
OffMain == /\ pc = "off" /\ page_num = 0 /\ total_resultats = <<>> /\ current_row = 0
           /\ pages_visitees = {} /\ page_echec = 0 /\ collecte = <<>>
           /\ arg_tri = Pending /\ produits_tries = <<>> /\ arg_csv = Pending

RECURSIVE Texts(_, _)
\* the texts over an alphabet of length at most k
Texts(alphabet, k) ==
  IF k = 0 THEN {<<>>}
  ELSE LET shorter == Texts(alphabet, k - 1)
       IN shorter \cup {Append(s, c) : s \in {t \in shorter : Len(t) = k - 1},
                                        c \in alphabet}

RECURSIVE SeqsUpTo(_, _)
\* the sequences over S of length at most k
SeqsUpTo(S, k) ==
  IF k = 0 THEN {<<>>}
  ELSE LET shorter == SeqsUpTo(S, k - 1)
       IN shorter \cup {Append(s, c) : s \in {t \in shorter : Len(t) = k - 1},
                                        c \in S}

\* ------------------------------------- specification: the currency parser
PrixAlphabet == {"0", "1", "5", ",", ".", "eur", " ", "nbsp", "-"}

InitPrix == /\ prix_str \in Texts(PrixAlphabet, MaxLen) \cup {NA}
            /\ prix_ret = Pending
            /\ OffDirect /\ OffFormat /\ OffExtraire /\ OffTri /\ OffPage /\ OffMain

CallNettoyerPrixTotal ==
  /\ prix_ret = Pending
  /\ prix_ret' = _nettoyer_prix_total(prix_str)
  /\ UNCHANGED <<prix_str, varsDirect, varsFormat, varsExtraire, varsTri, varsPage,
                 varsMain>>

NextPrix == CallNettoyerPrixTotal
SpecPrix == InitPrix /\ [][NextPrix]_vars

\* C8 (as stated): the call returns without raising, the result is never
\* negative, it is 0.0 for the empty text, the N/A sentinel and a text that is
\* no number once '€', spaces and non-breaking spaces are removed and ','
\* is '.', and it is the parsed number otherwise.
CleanedPrix(s) ==
  LET kept == SelectSeq(s, LAMBDA c : c \notin {"eur", " ", "nbsp"})
  IN [k \in 1..Len(kept) |-> IF kept[k] = "," THEN "." ELSE kept[k]]

ExpectedPrix(s) ==
  IF s = <<>> \/ s = NA \/ pyfloat(CleanedPrix(s)).exc # "none" THEN Zero
  ELSE pyfloat(CleanedPrix(s)).val

C8_NonNegativeTotal ==
  prix_ret.exc # "pending" =>
    /\ prix_ret.exc = "none"
    /\ prix_ret.val.n >= 0
    /\ prix_ret.val = ExpectedPrix(prix_str)

\* C8 (amended): the call returns without raising; the result is 0.0 for the
\* empty text, the N/A sentinel and a text that is no number after the
\* cleaning, and otherwise the number float() reads, whatever its sign.
C8_ParsedOrZero ==
  prix_ret.exc # "pending" =>
    /\ prix_ret.exc = "none"
    /\ prix_ret.val = ExpectedPrix(prix_str)

\* a price with a comma, a non-breaking space and the euro sign was parsed
C8_Witness ==
  /\ prix_ret.exc = "none" /\ prix_ret.val = Rat(1, 2)
  /\ prix_str = <<",", "5", "nbsp", "eur">>

\* ------------------------------------- specification: the direct normaliser
MaxNum == 4        \* largest numerator of the unit prices enumerated
MaxUnite == 4      \* longest unit text enumerated

UniteAlphabet == {"k", "K", "g", "1", "0", " "}
Unites == Texts(UniteAlphabet, MaxUnite)
            \cup {NA, <<"L">>, <<"1", "0", "0", "G">>, <<" ", "1", "0", "0", "g", "nbsp">>,
                  <<"1", "0", "0", " ", "g">>, <<"nbsp", "K", "G">>}
Valeurs == {Rat(a, b) : a \in (-1)..MaxNum, b \in {1, 2, 10}}

InitDirect == /\ valeur \in Valeurs /\ unite \in Unites /\ direct_ret = Pending
              /\ OffPrix /\ OffFormat /\ OffExtraire /\ OffTri /\ OffPage /\ OffMain

CallCalculerPrixAuKgDirect ==
  /\ direct_ret = Pending
  /\ direct_ret' = Ret(calculer_prix_au_kg_direct(valeur, unite))
  /\ UNCHANGED <<valeur, unite, varsPrix, varsFormat, varsExtraire, varsTri, varsPage,
                 varsMain>>

NextDirect == CallCalculerPrixAuKgDirect
SpecDirect == InitDirect /\ [][NextDirect]_vars

\* the unit without its surrounding blanks, compared without regard to case
Core(u) ==
  LET nb == {k \in 1..Len(u) : u[k] \notin Whitespace}
  IN IF nb = {} THEN <<>>
     ELSE SubSeq(u, CHOOSE k \in nb : \A k2 \in nb : k <= k2,
                    CHOOSE k \in nb : \A k2 \in nb : k >= k2)
IsKg(u) == LET c == Core(u)
           IN Len(c) = 2 /\ c[1] \in {"k", "K"} /\ c[2] \in {"g", "G"}
Is100g(u) == LET c == Core(u)
             IN Len(c) = 4 /\ SubSeq(c, 1, 3) = <<"1", "0", "0">> /\ c[4] \in {"g", "G"}

\* C7: value <= 0 gives 0.0; unit 'kg' (any case, blanks around) gives the
\* value; '100g' gives ten times the value; every other unit gives 0.0.
C7_DirectContract ==
  direct_ret.exc # "pending" =>
    /\ direct_ret.exc = "none"
    /\ valeur.n <= 0 => direct_ret.val = Zero
    /\ valeur.n > 0 /\ IsKg(unite) => direct_ret.val = valeur
    /\ valeur.n > 0 /\ Is100g(unite) =>
         direct_ret.val.n * valeur.d = 10 * valeur.n * direct_ret.val.d
    /\ ~IsKg(unite) /\ ~Is100g(unite) => direct_ret.val = Zero

\* a per-100g price in upper case with blanks around was scaled to a kg price
C7_Witness ==
  /\ direct_ret.exc = "none" /\ unite = <<" ", "1", "0", "0", "g", "nbsp">>
  /\ valeur = Rat(3, 2) /\ direct_ret.val = Rat(15, 1)

\* ----------------------------------- specification: the pack-size normaliser
MaxTitre == 5      \* longest title enumerated

TitreAlphabet == {"2", "0", "x", "X", " ", "g", "D309"}
PrixFormats == {<<"1", ",", "5", "nbsp", "eur">>, <<"-", "5">>, NA}

InitFormat == /\ prix_total_str \in PrixFormats
              /\ titre \in Texts(TitreAlphabet, MaxTitre)
              /\ format_ret = Pending
              /\ OffPrix /\ OffDirect /\ OffExtraire /\ OffTri /\ OffPage /\ OffMain

CallCalculerPrixParFormat ==
  /\ format_ret = Pending
  /\ format_ret' = calculer_prix_par_format(prix_total_str, titre)
  /\ UNCHANGED <<prix_total_str, titre, varsPrix, varsDirect, varsExtraire, varsTri,
                 varsPage, varsMain>>

NextFormat == CallCalculerPrixParFormat
SpecFormat == InitFormat /\ [][NextFormat]_vars

\* C6: the call never raises; it returns 0.0 when the parsed total price is
\* <= 0, when the title has no '<integer> x <integer> g' match or when the
\* mass (count x grams)/1000 of the first match is <= 0, and otherwise the total
\* price divided by that mass.
C6_FormatContract ==
  format_ret.exc # "pending" =>
    LET total == _nettoyer_prix_total(prix_total_str).val
        m == re_search_format(titre)
        grams == IntMul(pyint(m.g1), pyint(m.g2))
    IN /\ format_ret.exc = "none"
       /\ IF total.n <= 0 \/ ~m.found \/ (~grams.big /\ grams.v <= 0)
          THEN format_ret.val = Zero
          ELSE /\ ~grams.big
               /\ format_ret.val.n * grams.v * total.d
                    = total.n * 1000 * format_ret.val.d

\* ------------------------------------- specification: the unit-price extractor
MaxSpans == 2      \* most secondary-text spans of a listing block

SpanTexts ==
  { <<"2", "0", ",", "5", "eur", "/", "k", "g">>,
    <<" ", "2", ",", "5", " ", "eur", " ", "/", " ", "1", "0", "0", " ", "g">>,
    <<"2", "eur", "/", "1", "0", "0", "nbsp", "g">>,
    <<"1", ".", "2", ".", "3", "eur", "/", "k", "g">>,
    <<",", "eur", "k", "g">>,
    <<"1", "nbsp", "2", "eur", "/", "k", "g">>,
    <<"1", "eur", " ", "3", "eur", "/", "k", "g">>,
    <<"1", "eur", "/", "K", "G">>,
    <<"a">> }

InitExtraire == /\ prix_blocs \in SeqsUpTo(SpanTexts, MaxSpans)
                /\ unitaire_ret = Pending
                /\ OffPrix /\ OffDirect /\ OffFormat /\ OffTri /\ OffPage /\ OffMain

CallExtrairePrixUnitaireAmazon ==
  /\ unitaire_ret = Pending
  /\ unitaire_ret' = Ret(_extraire_prix_unitaire_amazon(prix_blocs))
  /\ UNCHANGED <<prix_blocs, varsPrix, varsDirect, varsFormat, varsTri, varsPage,
                 varsMain>>

NextExtraire == CallExtrairePrixUnitaireAmazon
SpecExtraire == InitExtraire /\ [][NextExtraire]_vars

\* span k carries a unit price the extractor can use: the pattern matches
\* and the captured amount converts to a number
SpanReussi(k) ==
  LET texte == Strip(prix_blocs[k])
      m == re_search_unitaire(texte)
  IN /\ m.found
     /\ pyfloat(Strip(Replace(Replace(m.g1, ",", <<".">>), " ", <<>>))).exc = "none"

\* C9: the result is the value, the unit ('kg' or '100g') and the text of
\* the first span that yields a successful match, no later span being read,
\* or exactly (0.0, 'N/A', 'N/A') when no span does.
C9_FirstMatchOrDefault ==
  unitaire_ret.exc # "pending" =>
    LET r == unitaire_ret.val
        reussis == {k \in 1..Len(prix_blocs) : SpanReussi(k)}
    IN IF reussis = {}
       THEN r.valeur = Zero /\ r.unite = NA /\ r.texte = NA
       ELSE LET k == CHOOSE a \in reussis : \A b \in reussis : a <= b
                m == re_search_unitaire(Strip(prix_blocs[k]))
            IN /\ r.unite \in {<<"k", "g">>, <<"1", "0", "0", "g">>}
               /\ r.texte = Strip(prix_blocs[k])
               /\ r.valeur = pyfloat(Strip(Replace(Replace(m.g1, ",", <<".">>),
                                                   " ", <<>>))).val
               /\ r.vus = 1..k

\* ----------------------------------------- specification: the ranking filter
MaxTri == 3        \* most listings handed to the ranking filter

\* the resolved prices a listing can carry: 0.0 (unresolved) or a positive price
PrixKg == {Zero, Rat(8, 1), Rat(25, 2), Rat(41, 2)}

ProduitResolu(n, kg) ==
  [ProduitAmazon(<<"R", n>>, <<"a">>, NA, <<>>) EXCEPT
     !.prix_unitaire_kg = kg,
     !.source_prix_kg = IF kg = Zero THEN TagNA ELSE TagFormat]

InitTri == /\ resultats_in \in
                {[k \in 1..Len(kgs) |-> ProduitResolu(k, kgs[k])] :
                   kgs \in SeqsUpTo(PrixKg, MaxTri)}
           /\ resultats_tries = Pending
           /\ OffPrix /\ OffDirect /\ OffFormat /\ OffExtraire /\ OffPage /\ OffMain

CallNettoyerEtTrierResultats ==
  /\ resultats_tries = Pending
  /\ resultats_tries' = Ret(nettoyer_et_trier_resultats(resultats_in))
  /\ UNCHANGED <<resultats_in, varsPrix, varsDirect, varsFormat, varsExtraire, varsPage,
                 varsMain>>

NextTri == CallNettoyerEtTrierResultats
SpecTri == InitTri /\ [][NextTri]_vars

\* position of the listing numbered n in the input
PosIn(n) == CHOOSE k \in 1..Len(resultats_in) : resultats_in[k].id_produit = <<"R", n>>

\* C3: the output holds exactly the listings whose price per kg is not 0,
\* each once, in ascending order of price per kg, listings of equal price in
\* their order of arrival.
C3_FilteredStableSorted ==
  resultats_tries.exc # "pending" =>
    LET out == resultats_tries.val
    IN /\ \A k \in 1..Len(resultats_in) :
            Cardinality({a \in 1..Len(out) : out[a] = resultats_in[k]})
              = (IF resultats_in[k].prix_unitaire_kg # Zero THEN 1 ELSE 0)
       /\ \A a \in 1..Len(out) : \E k \in 1..Len(resultats_in) : out[a] = resultats_in[k]
       /\ \A a, b \in 1..Len(out) :
            a < b => \/ RatLt(out[a].prix_unitaire_kg, out[b].prix_unitaire_kg)
                     \/ /\ out[a].prix_unitaire_kg = out[b].prix_unitaire_kg
                        /\ PosIn(out[a].id_produit[2]) < PosIn(out[b].id_produit[2])

\* the spec's example: prices [0, 12.5, 0] then two listings at 8.0 come out as
\* the two 8.0 in arrival order, then 12.5 (here with three listings)
C3_Witness ==
  /\ resultats_tries.exc = "none"
  /\ Len(resultats_in) = 3
  /\ resultats_in[1].prix_unitaire_kg = Rat(25, 2)
  /\ resultats_in[2].prix_unitaire_kg = Rat(8, 1)
  /\ resultats_in[3].prix_unitaire_kg = Rat(8, 1)
  /\ resultats_tries.val = <<resultats_in[2], resultats_in[3], resultats_in[1]>>

\* --------------------- specification: one page, _traiter_produit in steps
MaxBlocs == 2      \* most listing blocks on a page
MaxBase == 2       \* largest row_num_base enumerated

BlocDirect    == [titre |-> <<" ", "2", "x", "2", "0", "g">>,
                  prix_total |-> <<"1", ",", "5", "nbsp", "eur">>, href |-> <<"/a">>,
                  spans |-> <<<<"a">>, <<"2", "0", ",", "5", "eur", "/", "k", "g">>>>]
Bloc100g      == [titre |-> <<"a">>, prix_total |-> <<"1", ",", "5", "nbsp", "eur">>,
                  href |-> NoElement,
                  spans |-> <<<<"2", "eur", "/", "1", "0", "0", "g">>>>]
BlocFormat    == [titre |-> <<"2", "x", "2", "0", "g">>,
                  prix_total |-> <<"1", ",", "5", "nbsp", "eur">>, href |-> <<"/b">>,
                  spans |-> <<<<",", "eur", "k", "g">>>>]
BlocNonResolu == [titre |-> NoElement, prix_total |-> NoElement, href |-> <<"/c">>,
                  spans |-> <<>>]
BlocErreur    == [titre |-> <<"2", "x", "D309", "g">>,
                  prix_total |-> <<"1", ",", "5", "nbsp", "eur">>, href |-> <<"/d">>,
                  spans |-> <<>>]
Blocs == {BlocDirect, Bloc100g, BlocFormat, BlocNonResolu, BlocErreur}

InitPage == /\ produits \in SeqsUpTo(Blocs, MaxBlocs)
            /\ row_num_base \in 0..MaxBase
            /\ i = 0 /\ resultats = <<>> /\ produit_data = NoProduit
            /\ prix_kg_direct = Zero /\ appels = <<>> /\ etape = "boucle"
            /\ OffPrix /\ OffDirect /\ OffFormat /\ OffExtraire /\ OffTri /\ OffMain

horsPage == <<varsPrix, varsDirect, varsFormat, varsExtraire, varsTri, varsMain>>

\* line 204: the next block, or the end of the loop
BoucleProduits ==
  /\ etape = "boucle"
  /\ etape' = IF i < Len(produits) THEN "traiter" ELSE "fini"
  /\ UNCHANGED <<produits, row_num_base, i, resultats, produit_data, prix_kg_direct,
                 appels, horsPage>>

\* lines 149-173
TraiterProduitExtraction ==
  /\ etape = "traiter"
  /\ \E e \in {TraiterExtraction(produits[i + 1], produit_id(row_num_base, i))} :
        /\ produit_data' = e.data
        /\ prix_kg_direct' = e.direct
        /\ appels' = Append(appels, <<"direct", i>>)
  /\ etape' = "decision"
  /\ UNCHANGED <<produits, row_num_base, i, resultats, horsPage>>

\* lines 176-177: the direct price is stored
TraiterProduitDirect ==
  /\ etape = "decision" /\ GardeDirect(prix_kg_direct)
  /\ produit_data' = [produit_data EXCEPT !.prix_unitaire_kg = prix_kg_direct]
  /\ etape' = "source_direct"
  /\ UNCHANGED <<produits, row_num_base, i, resultats, prix_kg_direct, appels, horsPage>>

\* lines 179-184: the pack-size normaliser is called; its price is stored when
\* > 0.0; an exception leaves _traiter_produit and is caught at line 210 (one
\* that `except Exception` does not catch would leave extraire_donnees_page)
TraiterProduitFormat ==
  /\ etape = "decision" /\ ~GardeDirect(prix_kg_direct)
  /\ appels' = Append(appels, <<"format", i>>)
  /\ \E f \in {calculer_prix_par_format(produit_data.prix_total_str,
                                        produit_data.titre)} :
        IF f.exc # "none"
        THEN /\ i' = IF EstException(f.exc) THEN ApresException(i, Len(produits)) ELSE i
             /\ etape' = IF EstException(f.exc) THEN "boucle" ELSE "exception"
             /\ UNCHANGED produit_data
        ELSE IF RatPos(f.val)
        THEN /\ produit_data' = [produit_data EXCEPT !.prix_unitaire_kg = f.val]
             /\ etape' = "source_format" /\ UNCHANGED i
        ELSE /\ etape' = "retour" /\ UNCHANGED <<i, produit_data>>
  /\ UNCHANGED <<produits, row_num_base, resultats, prix_kg_direct, horsPage>>

\* line 178 or 185
TraiterProduitSource ==
  /\ etape \in {"source_direct", "source_format"}
  /\ produit_data' = [produit_data EXCEPT !.source_prix_kg = TagDeBranche(etape)]
  /\ etape' = "retour"
  /\ UNCHANGED <<produits, row_num_base, i, resultats, prix_kg_direct, appels, horsPage>>

\* lines 192 and 209: the listing is returned and appended
AjouterResultat ==
  /\ etape = "retour"
  /\ resultats' = Append(resultats, produit_data)
  /\ i' = i + 1
  /\ etape' = "boucle"
  /\ UNCHANGED <<produits, row_num_base, produit_data, prix_kg_direct, appels, horsPage>>

NextPage == \/ BoucleProduits \/ TraiterProduitExtraction \/ TraiterProduitDirect
            \/ TraiterProduitFormat \/ TraiterProduitSource \/ AjouterResultat
SpecPage == InitPage /\ [][NextPage]_vars

\* the direct normaliser on what the extractor reads in block number k (0-based)
DirectDuBloc(k) ==
  LET amz == _extraire_prix_unitaire_amazon(produits[k + 1].spans)
  IN calculer_prix_au_kg_direct(amz.valeur, amz.unite)

AppelsFormat == {appels[a][2] : a \in {b \in 1..Len(appels) : appels[b][1] = "format"}}

\* C1: when the direct normaliser returns a value > 0 for a listing, the
\* listing's price per kg is that value, its source tag is the direct tag and
\* the pack-size normaliser is never called for it; the pack-size normaliser
\* is called only for listings whose direct result is not > 0.
C1_DirectPrecedence ==
  /\ \A k \in AppelsFormat : ~RatPos(DirectDuBloc(k))
  /\ \A a \in 1..Len(resultats) :
       LET k == resultats[a].id_produit[2] - row_num_base - 1
       IN RatPos(DirectDuBloc(k)) =>
            /\ resultats[a].prix_unitaire_kg = DirectDuBloc(k)
            /\ resultats[a].source_prix_kg = TagDirect
            /\ k \notin AppelsFormat
  /\ etape = "fini" =>
       \A k \in 0..(Len(produits) - 1) :
         RatPos(DirectDuBloc(k)) =>
           \E a \in 1..Len(resultats) : resultats[a].id_produit = <<"R", row_num_base + k + 1>>

\* a listing with a site unit price and a pack size in its title was resolved
\* from the site unit price
C1_Witness ==
  /\ etape = "fini" /\ Len(resultats) > 0
  /\ resultats[1].titre = <<"2", "x", "2", "0", "g">>
  /\ resultats[1].prix_unitaire_kg = Rat(41, 2)
  /\ resultats[1].source_prix_kg = TagDirect

Coherent(p) ==
  \/ RatPos(p.prix_unitaire_kg) /\ p.source_prix_kg # TagNA
  \/ p.prix_unitaire_kg = Zero /\ p.source_prix_kg = TagNA

\* C2 (as stated): in every state of every listing, during resolution
\* included, the price per kg is > 0 with a source tag other than the
\* unresolved tag, or is 0 with the unresolved tag.
C2_AlwaysCoherent ==
  /\ etape \in {"decision", "source_direct", "source_format", "retour"}
       => Coherent(produit_data)
  /\ \A a \in 1..Len(resultats) : Coherent(resultats[a])

\* C2 (amended): the two fields agree when the listing is created, when
\* _traiter_produit returns it and in every result list; they disagree only
\* between the assignment of the price per kg and that of the source tag.
C2_CoherentOutsideAssignment ==
  /\ etape \in {"decision", "retour"} => Coherent(produit_data)
  /\ \A a \in 1..Len(resultats) : Coherent(resultats[a])

\* a page gave a listing resolved from the pack size and an unresolved one
C2_Witness ==
  /\ etape = "fini" /\ Len(resultats) = 2
  /\ resultats[1].source_prix_kg = TagFormat /\ resultats[1].prix_unitaire_kg = Rat(75, 2)
  /\ resultats[2].source_prix_kg = TagNA /\ resultats[2].prix_unitaire_kg = Zero

\* blocks (1-based) whose processing raises nothing
BlocsSansErreur ==
  {k \in 1..Len(produits) :
     _traiter_produit(produits[k], <<"R", row_num_base + k>>).exc = "none"}

\* C5: a block whose processing raises is absent from the page's result;
\* every other block is in it, in page order, with the fields it has when
\* processed on its own at its position; the page call itself ends normally.
C5_SiblingsUnaffected ==
  /\ etape # "exception"
  /\ etape = "fini" =>
       /\ Len(resultats) = Cardinality(BlocsSansErreur)
       /\ \A a \in 1..Len(resultats) :
            LET k == CHOOSE b \in BlocsSansErreur :
                       Cardinality({c \in BlocsSansErreur : c <= b}) = a
            IN resultats[a] = _traiter_produit(produits[k], <<"R", row_num_base + k>>).val

\* the first block of a page raised and the second is in the result
C5_Witness ==
  /\ etape = "fini" /\ Len(produits) = 2 /\ produits[1] = BlocErreur
  /\ Len(resultats) = 1 /\ resultats[1].id_produit = <<"R", row_num_base + 2>>
  /\ resultats[1].source_prix_kg = TagDirect

\* ------------------------------------------------- specification: main ---
MAX_PAGES == 3

BlocsMain == {BlocDirect, BlocNonResolu, BlocErreur}

Init == /\ pc = "goto" /\ page_num = 1 /\ total_resultats = <<>> /\ current_row = 0
        /\ pages_visitees = {} /\ page_echec = 0 /\ collecte = <<>>
        /\ arg_tri = Pending /\ produits_tries = <<>> /\ arg_csv = Pending
        /\ OffPrix /\ OffDirect /\ OffFormat /\ OffExtraire /\ OffTri /\ OffPage

horsMain == <<varsPrix, varsDirect, varsFormat, varsExtraire, varsTri, varsPage>>

\* line 300: the page after page n, or the end of the loop
PageSuivante(n) ==
  IF n < MAX_PAGES THEN [pc |-> "goto", page_num |-> n + 1]
  ELSE [pc |-> "close", page_num |-> n]

\* a `continue` in place of the `break` of line 315
SuiteApresEchecContinue(n, e) ==
  [pc |-> PageSuivante(n).pc, page_num |-> PageSuivante(n).page_num, page_echec |-> n]

\* lines 313-315: where main goes on after page n raised e
SuiteApresEchec(n, e) ==
  IF EstException(e) THEN [pc |-> "close", page_num |-> n, page_echec |-> n]
  ELSE [pc |-> "exception", page_num |-> n, page_echec |-> n]

Echec(e) ==
  LET s == SuiteApresEchec(page_num, e)
  IN /\ pc' = s.pc /\ page_num' = s.page_num /\ page_echec' = s.page_echec

\* line 306: page.goto, which may time out
Goto ==
  /\ pc = "goto"
  /\ pages_visitees' = pages_visitees \cup {page_num}
  /\ \/ pc' = "wait" /\ UNCHANGED <<page_num, page_echec>>
     \/ Echec("TimeoutError")
  /\ UNCHANGED <<total_resultats, current_row, collecte, arg_tri, produits_tries,
                 arg_csv, horsMain>>

\* line 307: page.wait_for_selector, which may time out
WaitForSelector ==
  /\ pc = "wait"
  /\ \/ pc' = "extraire" /\ UNCHANGED <<page_num, page_echec>>
     \/ Echec("TimeoutError")
  /\ UNCHANGED <<total_resultats, current_row, pages_visitees, collecte, arg_tri,
                 produits_tries, arg_csv, horsMain>>

\* lines 309-311: the page's blocks are extracted and added to the total, or
\* page.content() (line 198) raises
ExtraireDonneesPage ==
  /\ pc = "extraire"
  /\ \/ \E blocs \in SeqsUpTo(BlocsMain, MaxBlocs) :
          \E r \in {extraire_donnees_page(blocs, current_row)} :
             IF r.exc = "none"
             THEN /\ total_resultats' = total_resultats \o r.val
                  /\ current_row' = current_row + Len(r.val)
                  /\ collecte' = Append(collecte, r.val)
                  /\ pc' = PageSuivante(page_num).pc
                  /\ page_num' = PageSuivante(page_num).page_num
                  /\ UNCHANGED page_echec
             ELSE /\ Echec(r.exc)
                  /\ UNCHANGED <<total_resultats, current_row, collecte>>
     \/ /\ Echec("Error")
        /\ UNCHANGED <<total_resultats, current_row, collecte>>
  /\ UNCHANGED <<pages_visitees, arg_tri, produits_tries, arg_csv, horsMain>>

\* line 317
FermerNavigateur ==
  /\ pc = "close"
  /\ pc' = "tri"
  /\ UNCHANGED <<page_num, total_resultats, current_row, pages_visitees, page_echec,
                 collecte, arg_tri, produits_tries, arg_csv, horsMain>>

\* line 321
NettoyerEtTrier ==
  /\ pc = "tri"
  /\ arg_tri' = Ret(total_resultats)
  /\ produits_tries' = nettoyer_et_trier_resultats(total_resultats)
  /\ pc' = "csv"
  /\ UNCHANGED <<page_num, total_resultats, current_row, pages_visitees, page_echec,
                 collecte, arg_csv, horsMain>>

\* line 324: the ranked listings are handed to ecrire_csv
EcrireCsv ==
  /\ pc = "csv"
  /\ arg_csv' = Ret(produits_tries)
  /\ pc' = "done"
  /\ UNCHANGED <<page_num, total_resultats, current_row, pages_visitees, page_echec,
                 collecte, arg_tri, produits_tries, horsMain>>

Next == \/ Goto \/ WaitForSelector \/ ExtraireDonneesPage \/ FermerNavigateur
        \/ NettoyerEtTrier \/ EcrireCsv
Spec == Init /\ [][Next]_vars

RECURSIVE Concat(_)
Concat(ss) == IF ss = <<>> THEN <<>> ELSE Head(ss) \o Concat(Tail(ss))

\* C4: when page k fails, no page above k is fetched, no exception leaves
\* main, and the listings of pages 1..k-1 are what the ranking filter receives,
\* its survivors being what the report writer receives.
C4_PageFailureEndsLoopOnly ==
  /\ pc # "exception"
  /\ page_echec > 0 =>
       /\ \A p \in pages_visitees : p <= page_echec
       /\ Len(collecte) = page_echec - 1
       /\ total_resultats = Concat(collecte)
       /\ pc \in {"csv", "done"} => arg_tri = Ret(Concat(collecte))
       /\ pc = "done" =>
            arg_csv = Ret(nettoyer_et_trier_resultats(Concat(collecte)))

\* page 2 failed; the listings of page 1 were ranked, one of them dropped as
\* unresolved, and the rest handed to the report writer
C4_Witness ==
  /\ pc = "done" /\ page_echec = 2 /\ pages_visitees = {1, 2}
  /\ Len(arg_tri.val) = 2 /\ Len(arg_csv.val) = 1

\* C10: no two listings of the collected list have the same identifier.
C10_UniqueIdentifiers ==
  \A a, b \in 1..Len(total_resultats) :
    a # b => total_resultats[a].id_produit # total_resultats[b].id_produit

====
